---- MODULE Spec2Model ----
(***************************************************************************)
(* Model of the smart-playlist ingestion pipeline (src/backend/ingest.py,  *)
(* db_utils.py, token_manager.py).  The store's tables are sequences and   *)
(* functions, a run of ingest.main is a sequence of steps, and the         *)
(* external services (token endpoint, recently-played feed, artist genres, *)
(* audio features) answer nondeterministically.                            *)
(*                                                                         *)
(* A nullable column or JSON value is <<>> (NULL / None) or <<v>>.         *)
(* A played_at instant is the pair <<minutes, seconds>> of its ISO-8601    *)
(* text: equality and ordering of the text are those of the pair, and      *)
(* datetime.fromisoformat turns it into seconds.                           *)
(***************************************************************************)
EXTENDS Integers, Sequences, FiniteSets, TLC

VARIABLES
    token_file,        \* tokens.json: None, or the credential last saved
    tables_created,    \* whether create_tables has made the tables
    tracks,            \* table tracks: track_id -> row
    plays,             \* table plays: rows in id order
    download_history,  \* table download_history: rows in id order
    pc,                \* position of the current call
    result,            \* how the last run of ingest.main ended
    access_token,      \* main's access_token
    raw,               \* what get_all_recently_played last returned, if it did
    request,           \* the history request the run has sent and not yet used
    items,             \* main's data["items"] after deduplication
    idx,               \* position of the for loops of main
    track_ids,         \* main's track_ids
    track_artist_map,  \* main's track_artist_map
    new_plays_count,   \* main's new_plays_count
    batches,           \* the audio-features requests of the run, in order
    backfills,         \* the backfill lookups of the run, in order
    changed,           \* the tables some step of the run has modified
    same_feed,         \* whether the run fetched the list the run before it fetched
    call,              \* arguments of a direct call of a function
    ret,               \* what the direct call returned
    caught,            \* the errors the last step of main caught and let pass
    writer,            \* the connection that holds the store's write lock, if any
    other,             \* a second run of ingest.main, concurrent with the first
    session,           \* app.py: which of /callback and /logout succeeded last, and
                       \* the credential of the last save_token no clear_token followed
    expired,           \* the access values whose expiry instant has passed
    sp                 \* the Spotify client a request of app.py holds, if any

dbVars   == <<tables_created, tracks, plays, download_history>>
runVars  == <<pc, result, access_token, raw, request, items, idx, track_ids,
              track_artist_map, new_plays_count, batches, backfills>>
histVars == <<changed, same_feed>>
logVars  == <<caught>>
raceVars == <<writer, other>>
appVars  == <<session>>
tokVars  == <<expired, sp>>
fnVars   == <<call, ret>>
vars     == <<token_file, dbVars, runVars, histVars, logVars, raceVars, appVars, fnVars,
              tokVars>>

----------------------------------------------------------------------------
(* Values *)

None == <<>>
Some(v) == <<v>>

Abs(x) == IF x < 0 THEN 0 - x ELSE x
Min(a, b) == IF a < b THEN a ELSE b

\* datetime.fromisoformat(...) of a played_at text, in seconds
fromisoformat(p) == p[1] * 60 + p[2]

\* (current_time - next_time).total_seconds()
time_diff(current_played_at, next_played_at) ==
    fromisoformat(current_played_at) - fromisoformat(next_played_at)

\* Python's and SQLite's ordering of two played_at texts
TextLess(p, q) == p[1] < q[1] \/ (p[1] = q[1] /\ p[2] < q[2])

\* the merge window of deduplicate_consecutive_plays, in seconds
MergeWindow == 300

\* Spotify's ceiling on the ids of one audio-features request
FeatureCeiling == 100

----------------------------------------------------------------------------
(* Raw play events.  "missing" names the required key the event lacks.     *)

Event(tid, at, desc, missing) ==
    [track_id |-> tid, played_at |-> at, desc |-> desc, context |-> "None",
     missing |-> missing]

\* the keys deduplicate_consecutive_plays reads: item["track"]["id"], item["played_at"]
DedupKeysPresent(item) == item.missing \notin {"track", "id", "played_at"}

----------------------------------------------------------------------------
(* deduplicate_consecutive_plays *)

\* a mutant of SameTrackWithinWindow: the window's bound is inclusive
SameTrackWithinWindow_inclusive(current_item, next_item) ==
    /\ next_item.track_id = current_item.track_id
    /\ Abs(time_diff(current_item.played_at, next_item.played_at)) <= MergeWindow

\* a mutant of SameTrackWithinWindow: the track ids are not compared
SameTrackWithinWindow_anytrack(current_item, next_item) ==
    Abs(time_diff(current_item.played_at, next_item.played_at)) < MergeWindow

\* a mutant of SameTrackWithinWindow: the difference is taken with its sign
SameTrackWithinWindow_signed(current_item, next_item) ==
    /\ next_item.track_id = current_item.track_id
    /\ time_diff(current_item.played_at, next_item.played_at) < MergeWindow

\* the test of the inner loop
SameTrackWithinWindow(current_item, next_item) ==
    /\ next_item.track_id = current_item.track_id
    /\ Abs(time_diff(current_item.played_at, next_item.played_at)) < MergeWindow

\* the inner while loop: the j at which the lookahead from anchor i stops
RECURSIVE LookAhead(_, _, _)
LookAhead(its, i, j) ==
    IF j <= Len(its) /\ SameTrackWithinWindow(its[i], its[j])
    THEN LookAhead(its, i, j + 1)
    ELSE j

\* a mutant of NextScan: the scan resumes at the last event of the run
NextScan_last(i, j) == IF j > i + 1 THEN j - 1 ELSE i + 1

\* i = j if j > i + 1 else i + 1
NextScan(i, j) == IF j > i + 1 THEN j ELSE i + 1

\* the outer while loop from position i: the positions appended to deduplicated
RECURSIVE KeptFrom(_, _)
KeptFrom(its, i) ==
    IF i > Len(its) THEN <<>>
    ELSE <<i>> \o KeptFrom(its, NextScan(i, LookAhead(its, i, i + 1)))

\* the positions (1-based) of the events deduplicate_consecutive_plays returns
KeptPositions(its) == IF its = <<>> THEN <<>> ELSE KeptFrom(its, 1)

\* the returned list; a KeyError when an event lacks a key the scan reads
deduplicate_consecutive_plays(its) ==
    IF \E k \in 1..Len(its) : ~DedupKeysPresent(its[k])
    THEN [raised |-> "KeyError", value |-> <<>>]
    ELSE [raised |-> "", value |-> [k \in 1..Len(KeptPositions(its)) |-> its[KeptPositions(its)[k]]]]

----------------------------------------------------------------------------
(* get_audio_features *)

\* a mutant of AudioFeaturesRejects: the ceiling is checked off by one
AudioFeaturesRejects_offbyone(token, ids, is_list) ==
    \/ token = ""
    \/ ids = <<>> \/ ~is_list
    \/ Len(ids) > FeatureCeiling + 1

\* the three checks made before the request
AudioFeaturesRejects(token, ids, is_list) ==
    \/ token = ""
    \/ ids = <<>> \/ ~is_list
    \/ Len(ids) > FeatureCeiling

----------------------------------------------------------------------------
(* get_all_recently_played *)

\* the most get_all_recently_played asks of the service
SpotifyLimit == 50

\* a mutant of SentLimit: the requested limit is sent as it is
SentLimit_uncapped(limit) == IF limit = None THEN SpotifyLimit ELSE limit[1]

\* get_all_recently_played lines 60-62 and 70: the limit of the request sent
SentLimit(limit) == Min(IF limit = None THEN SpotifyLimit ELSE limit[1], SpotifyLimit)

\* the service answers with the newest plays it holds, at most limit of them
Served(feed, limit) == SubSeq(feed, 1, Min(limit, Len(feed)))

----------------------------------------------------------------------------
(* Bounds and input sets *)

\* longest list handed to deduplicate_consecutive_plays directly
MaxItems == 4

\* longest id list handed to get_audio_features directly
MaxIds == 102

\* longest feed a run fetches
MaxFeed == 2

\* ids per audio-features request of main (100 in range(0, len(track_ids), 100)),
\* scaled down so that a run makes more than one request
BatchSize == 2

TrackIds == {"A", "B"}

\* played_at texts 0 s, 120 s, 250 s, 299 s, 300 s and 400 s after the hour
Instants == {<<0, 0>>, <<2, 0>>, <<4, 10>>, <<4, 59>>, <<5, 0>>, <<6, 40>>}

\* played_at texts of the detect_skipped calls: 0 s, 60 s, 100 s and 150 s
\* after the hour
SkipInstants == {<<0, 0>>, <<1, 0>>, <<1, 40>>, <<2, 30>>}

\* duration_ms of the detect_skipped calls
SkipDurations == {None, Some(200000), Some(180000)}

\* two descriptions of a track as the feed embeds them; the second lists an
\* artist without an id
Desc1 == [name |-> "n1", artist |-> "x", artist_id |-> Some("ar1"),
          duration_ms |-> 200000, popularity |-> 10]
Desc2 == [name |-> "n2", artist |-> "y, z", artist_id |-> None,
          duration_ms |-> 180000, popularity |-> 20]

\* a list ordered by played_at, oldest first or newest first
Chronological(its) ==
    \A k \in 1..(Len(its) - 1) : ~TextLess(its[k + 1].played_at, its[k].played_at)
ReverseChronological(its) ==
    \A k \in 1..(Len(its) - 1) : ~TextLess(its[k].played_at, its[k + 1].played_at)
Ordered(its) == Chronological(its) \/ ReverseChronological(its)

SeqsUpTo(S, n) == UNION {[1..m -> S] : m \in 0..n}

\* well-formed events for the direct calls
DedupEvents == {Event(t, at, Desc1, "none") : t \in TrackIds, at \in Instants}

DedupCalls ==
    {[fn |-> "deduplicate_consecutive_plays", items |-> its, access_token |-> "",
      ids |-> <<>>, is_list |-> TRUE, limit |-> None, code |-> None, error |-> None, rows |-> None, played_at |-> <<0, 0>>,
      duration_ms |-> None] :
        its \in {s \in SeqsUpTo(DedupEvents, MaxItems) : Ordered(s)}}

FeatureCalls ==
    {[fn |-> "get_audio_features", items |-> <<>>, access_token |-> tok,
      ids |-> [k \in 1..n |-> "A"], is_list |-> l, limit |-> None, code |-> None, error |-> None, rows |-> None,
      played_at |-> <<0, 0>>, duration_ms |-> None] :
        tok \in {"", "tok"}, n \in 0..MaxIds, l \in BOOLEAN}

\* the limits get_all_recently_played is called with directly: none, below,
\* at and above the ceiling
RequestedLimits == {None, Some(1), Some(49), Some(50), Some(51), Some(100)}

\* how many plays the service holds for the user
HeldCounts == {0, 1, 49, 50, 51, 120}

\* the feed of a service holding n plays
HeldFeed(n) == [k \in 1..n |-> Event("A", <<0, 0>>, Desc1, "none")]

RecentlyPlayedCalls ==
    {[fn |-> "get_all_recently_played", items |-> <<>>, access_token |-> tok,
      ids |-> <<>>, is_list |-> TRUE, limit |-> l, code |-> None, error |-> None, rows |-> None,
      played_at |-> <<0, 0>>, duration_ms |-> None] :
        tok \in {"", "tok"}, l \in RequestedLimits}

NoCall == [fn |-> "none", items |-> <<>>, access_token |-> "", ids |-> <<>>, is_list |-> TRUE, limit |-> None, code |-> None, error |-> None,
           rows |-> None, played_at |-> <<0, 0>>, duration_ms |-> None]
NoRet  == [returned |-> FALSE, raised |-> "", value |-> <<>>, kept |-> <<>>, requests |-> 0,
           sent_limit |-> None, save |-> None, status |-> 0,
           was_skipped |-> FALSE, skip_indicator |-> ""]

----------------------------------------------------------------------------
(* streamlit_tag.detect_skipped *)

\* a mutant of NextPlayedAt: WHERE played_at >= ?
NextPlayedAt_orequal(rows, played_at) ==
    LET later == {rows[k].played_at : k \in 1..Len(rows)} \ {q \in Instants \cup SkipInstants : TextLess(q, played_at)}
    IN IF later = {} THEN None
       ELSE Some(CHOOSE p \in later : \A q \in later : ~TextLess(q, p))

\* SELECT played_at FROM plays WHERE played_at > ? ORDER BY played_at ASC LIMIT 1
NextPlayedAt(rows, played_at) ==
    LET later == {rows[k].played_at : k \in {j \in 1..Len(rows) : TextLess(played_at, rows[j].played_at)}}
    IN IF later = {} THEN None
       ELSE Some(CHOOSE p \in later : \A q \in later : ~TextLess(q, p))

\* a mutant of BeforeHalf: the threshold itself counts as skipped
BeforeHalf_inclusive(time_between, duration_ms) ==
    time_between * 2000 <= (IF duration_ms # None THEN duration_ms[1] ELSE 0)

\* time_between < (duration_ms / 1000 if duration_ms else 0) * 0.5, both
\* sides multiplied by 2000
BeforeHalf(time_between, duration_ms) ==
    time_between * 2000 < (IF duration_ms # None THEN duration_ms[1] ELSE 0)

\* rows is None when the plays table does not exist: the query raises and
\* the except clause answers
detect_skipped(rows, played_at, duration_ms) ==
    IF rows = None
    THEN [was_skipped |-> FALSE, skip_indicator |-> "? (unknown)"]
    ELSE LET next_played_at == NextPlayedAt(rows[1], played_at) IN
         IF next_played_at = None
         THEN [was_skipped |-> FALSE, skip_indicator |-> "|| (unknown)"]
         ELSE LET time_between == fromisoformat(next_played_at[1]) - fromisoformat(played_at) IN
              IF BeforeHalf(time_between, duration_ms)
              THEN [was_skipped |-> TRUE, skip_indicator |-> ">> (skipped)"]
              ELSE [was_skipped |-> FALSE, skip_indicator |-> "ok (played)"]

\* the columns of plays as create_tables makes the table
PlaysColumns ==
    {"id", "track_id", "played_at", "context", "mood_tag", "mood_when_listening",
     "theme_tag", "tagged_at"}

\* the columns the UPDATE of the Save All Tags handler assigns
SavedColumns == {"mood_tag", "mood_when_listening", "theme_tag", "is_skipped", "tagged_at"}

\* the Save All Tags handler: UPDATE plays SET mood_tag = ?, mood_when_listening = ?,
\* theme_tag = ?, is_skipped = ?, tagged_at = ? WHERE id = ?, with is_skipped
\* 1 if was_skipped else 0.  An error of the store is shown and nothing is
\* written.
SaveAllTags(rows, id, tags, was_skipped) ==
    IF SavedColumns \subseteq PlaysColumns
    THEN [raised |-> "",
          rows |-> [k \in 1..Len(rows) |->
                      IF rows[k].id = id
                      THEN [mood_tag |-> tags.mood_tag,
                            mood_when_listening |-> tags.mood_when_listening,
                            theme_tag |-> tags.theme_tag,
                            is_skipped |-> IF was_skipped THEN 1 ELSE 0,
                            tagged_at |-> "now"] @@ rows[k]
                      ELSE rows[k]]]
    ELSE [raised |-> "OperationalError", rows |-> rows]

\* what the three inputs of the tagging form can hold
TagChoices ==
    {[mood_tag |-> 3, mood_when_listening |-> 3, theme_tag |-> "Romantic"],
     [mood_tag |-> 5, mood_when_listening |-> 1, theme_tag |-> "Party"]}

\* longest plays table handed to detect_skipped directly
MaxPlays == 3

\* the plays tables of the direct calls: plays at distinct instants, in any
\* order, of track A and track B in turn
SkipTables ==
    {[k \in 1..Len(q) |-> [id |-> k, track_id |-> IF k % 2 = 1 THEN "A" ELSE "B",
                            played_at |-> q[k], context |-> "None"]] :
        q \in {r \in SeqsUpTo(SkipInstants, MaxPlays) :
                  \A i, j \in 1..Len(r) : r[i] = r[j] => i = j}}

\* detect_skipped is called with the played_at of a row and the duration_ms
\* of its track, which is null for a track stored by insert_track
SkipCalls ==
    UNION {{[fn |-> "detect_skipped", items |-> <<>>, access_token |-> "", ids |-> <<>>,
             is_list |-> TRUE, limit |-> None, code |-> None, error |-> None, rows |-> Some(rows), played_at |-> rows[k].played_at,
             duration_ms |-> d] : k \in 1..Len(rows), d \in SkipDurations} :
           rows \in SkipTables}
    \cup {[fn |-> "detect_skipped", items |-> <<>>, access_token |-> "", ids |-> <<>>,
           is_list |-> TRUE, limit |-> None, code |-> None, error |-> None, rows |-> None, played_at |-> <<0, 0>>, duration_ms |-> None]}

----------------------------------------------------------------------------
(* Initial values of the pipeline's variables *)

EmptyTracks == [t \in {} |-> None]

\* the second run before it starts and after it ends: exists is the answer
\* of its last SELECT COUNT
NoSession == [last |-> "none", saved |-> None]
NoOther == [pc |-> "idle", items |-> <<>>, idx |-> 0, exists |-> FALSE,
            new_plays_count |-> 0]

InitPipeline ==
    /\ token_file = None
    /\ expired = {}
    /\ sp = None
    /\ tables_created = FALSE
    /\ tracks = EmptyTracks
    /\ plays = <<>>
    /\ download_history = <<>>
    /\ pc = "idle"
    /\ result = "none"
    /\ access_token = ""
    /\ raw = None
    /\ request = None
    /\ items = <<>>
    /\ idx = 0
    /\ track_ids = <<>>
    /\ track_artist_map = <<>>
    /\ new_plays_count = 0
    /\ batches = <<>>
    /\ backfills = <<>>
    /\ changed = {}
    /\ same_feed = FALSE
    /\ caught = {}
    /\ writer = "none"
    /\ other = NoOther
    /\ session = NoSession

----------------------------------------------------------------------------
(* Direct calls of the two functions *)

InitFn ==
    /\ InitPipeline
    /\ call \in DedupCalls \cup FeatureCalls \cup SkipCalls \cup RecentlyPlayedCalls
    /\ ret = NoRet

CallDeduplicate ==
    /\ call.fn = "deduplicate_consecutive_plays"
    /\ ~ret.returned
    /\ LET r == deduplicate_consecutive_plays(call.items) IN
       ret' = [NoRet EXCEPT !.returned = TRUE, !.raised = r.raised, !.value = r.value,
                            !.kept = KeptPositions(call.items)]
    /\ UNCHANGED <<token_file, dbVars, runVars, histVars, logVars, raceVars, appVars, call, tokVars>>

\* requests.get answers, times out, or answers with an HTTP error status
CallGetAudioFeatures ==
    /\ call.fn = "get_audio_features"
    /\ ~ret.returned
    /\ IF AudioFeaturesRejects(call.access_token, call.ids, call.is_list)
       THEN ret' = [NoRet EXCEPT !.returned = TRUE, !.raised = "ValueError"]
       ELSE \E outcome \in {"", "Timeout", "HTTPError"} :
              ret' = [NoRet EXCEPT !.returned = TRUE, !.raised = outcome, !.requests = 1]
    /\ UNCHANGED <<token_file, dbVars, runVars, histVars, logVars, raceVars, appVars, call, tokVars>>

CallDetectSkipped ==
    /\ call.fn = "detect_skipped"
    /\ ~ret.returned
    /\ LET r == detect_skipped(call.rows, call.played_at, call.duration_ms) IN
       ret' = [NoRet EXCEPT !.returned = TRUE, !.was_skipped = r.was_skipped,
                            !.skip_indicator = r.skip_indicator]
    /\ UNCHANGED <<token_file, dbVars, runVars, histVars, logVars, raceVars, appVars, call, tokVars>>

\* get_all_recently_played: one requests.get, which answers with the items
\* the service serves, times out, or answers with an HTTP error status
CallGetAllRecentlyPlayed ==
    /\ call.fn = "get_all_recently_played"
    /\ ~ret.returned
    /\ IF call.access_token = ""
       THEN ret' = [NoRet EXCEPT !.returned = TRUE, !.raised = "ValueError"]
       ELSE \E outcome \in {"", "Timeout", "HTTPError"}, held \in HeldCounts :
              ret' = [NoRet EXCEPT !.returned = TRUE, !.raised = outcome, !.requests = 1,
                                   !.sent_limit = Some(SentLimit(call.limit)),
                                   !.value = IF outcome = ""
                                             THEN Served(HeldFeed(held), SentLimit(call.limit))
                                             ELSE <<>>]
    /\ UNCHANGED <<token_file, dbVars, runVars, histVars, logVars, raceVars, appVars, call, tokVars>>

\* the play the tagging page shows: the row whose played_at was handed to
\* detect_skipped
ShownPlay == CHOOSE k \in 1..Len(call.rows[1]) : call.rows[1][k].played_at = call.played_at

\* the Save All Tags button of a play the page shows, pressed after
\* detect_skipped has answered for it
CallSaveAllTags ==
    /\ call.fn = "detect_skipped"
    /\ call.rows # None
    /\ ret.returned
    /\ ret.save = None
    /\ \E tags \in TagChoices :
          ret' = [ret EXCEPT !.save = Some(SaveAllTags(call.rows[1],
                                              call.rows[1][ShownPlay].id, tags,
                                              ret.was_skipped))]
    /\ UNCHANGED <<token_file, dbVars, runVars, histVars, logVars, raceVars, appVars, call, tokVars>>

NextFn ==
    \/ CallDeduplicate \/ CallGetAudioFeatures \/ CallDetectSkipped
    \/ CallGetAllRecentlyPlayed \/ CallSaveAllTags

SpecFn == InitFn /\ [][NextFn]_vars

----------------------------------------------------------------------------
(* The store (db_utils.create_tables and the statements of ingest.main).   *)
(* tracks keeps the columns ingest.main and insert_track write; mood,      *)
(* timestamp and user_id are left out.                                      *)

Tables == [tracks |-> tracks, plays |-> plays, download_history |-> download_history]

\* a mutant of create_tables: the tables are made anew
create_tables_anew(db) ==
    [tracks |-> EmptyTracks, plays |-> <<>>, download_history |-> <<>>]

\* CREATE TABLE IF NOT EXISTS: an existing table keeps its rows
create_tables(db) == db

TrackRow(name, artist, duration_ms, popularity, genre, features) ==
    [track_name |-> name, artist |-> artist, duration_ms |-> duration_ms,
     popularity |-> popularity, genre |-> genre,
     energy |-> features.energy, danceability |-> features.danceability,
     valence |-> features.valence, tempo |-> features.tempo]

NoFeatures == [energy |-> None, danceability |-> None, valence |-> None, tempo |-> None]

\* a mutant of InsertOrIgnoreTrack: INSERT OR REPLACE
InsertOrIgnoreTrack_replace(rows, tid, row) ==
    [t \in DOMAIN rows \cup {tid} |-> IF t = tid THEN row ELSE rows[t]]

\* INSERT OR IGNORE INTO tracks: track_id is the primary key
InsertOrIgnoreTrack(rows, tid, row) ==
    IF tid \in DOMAIN rows THEN rows
    ELSE [t \in DOMAIN rows \cup {tid} |-> IF t = tid THEN row ELSE rows[t]]

\* a mutant of PlayExists: the count is compared with 1
PlayExists_morethanone(rows, tid, played_at) ==
    Cardinality({k \in 1..Len(rows) :
        rows[k].track_id = tid /\ rows[k].played_at = played_at}) > 1

\* a mutant of PlayExists: the play is taken as new
PlayExists_never(rows, tid, played_at) == FALSE

\* SELECT COUNT(*) FROM plays WHERE track_id = ? AND played_at = ?  ... > 0
PlayExists(rows, tid, played_at) ==
    Cardinality({k \in 1..Len(rows) :
        rows[k].track_id = tid /\ rows[k].played_at = played_at}) > 0

\* INSERT INTO plays(track_id, played_at, context): id is AUTOINCREMENT
InsertPlay(rows, tid, played_at, context) ==
    Append(rows, [id |-> Len(rows) + 1, track_id |-> tid,
                  played_at |-> played_at, context |-> context])

\* UPDATE tracks SET genre = ? WHERE track_id = ?
UpdateGenre(rows, tid, genre) ==
    [t \in DOMAIN rows |-> IF t = tid THEN [rows[t] EXCEPT !.genre = genre] ELSE rows[t]]

\* UPDATE tracks SET energy=?, danceability=?, valence=?, tempo=? WHERE track_id=?
UpdateFeatures(rows, tid, f) ==
    [t \in DOMAIN rows |->
        IF t = tid
        THEN [rows[t] EXCEPT !.energy = f.energy, !.danceability = f.danceability,
                             !.valence = f.valence, !.tempo = f.tempo]
        ELSE rows[t]]

\* the for loop over features["audio_features"]: a null entry is skipped
RECURSIVE ApplyFeatures(_, _, _)
ApplyFeatures(rows, ids, entries) ==
    IF ids = <<>> THEN rows
    ELSE ApplyFeatures(IF Head(entries) = None THEN rows
                       ELSE UpdateFeatures(rows, Head(ids), Head(entries)[1]),
                       Tail(ids), Tail(entries))

\* max([item["played_at"] for item in data["items"]]) over the texts
LatestPlay(its) ==
    CHOOSE p \in {its[k].played_at : k \in 1..Len(its)} :
        \A k \in 1..Len(its) : ~TextLess(p, its[k].played_at)

\* the tables a step has modified
Modified ==
    (IF tracks' # tracks THEN {"tracks"} ELSE {})
    \cup (IF plays' # plays THEN {"plays"} ELSE {})
    \cup (IF download_history' # download_history THEN {"download_history"} ELSE {})

----------------------------------------------------------------------------
(* The token file (token_manager.save_token, clear_token) *)

\* a credential as tokens.json holds it
Credential(value, has_refresh) == [access_token |-> value, refresh_token |-> has_refresh]

\* the callback of app.py: save_token(token_info) of a credential just
\* obtained, with an access_token and with or without a refresh_token
SaveToken(values) ==
    /\ pc = "idle" /\ sp = None
    /\ \E value \in values, has_refresh \in BOOLEAN :
          /\ token_file' = Some(Credential(value, has_refresh))
          /\ expired' = expired \ {value}
    /\ UNCHANGED <<dbVars, runVars, histVars, logVars, raceVars, appVars, fnVars, sp>>

ClearToken ==
    /\ pc = "idle" /\ sp = None
    /\ token_file' = None
    /\ UNCHANGED <<dbVars, runVars, histVars, logVars, raceVars, appVars, fnVars, tokVars>>

\* token_manager.get_spotify_client, called by a request of app.py.
\* oauth.is_token_expired compares the stored expires_at with the clock;
\* oauth.refresh_access_token answers with a new credential, which keeps the
\* refresh token and is saved, or raises.  A stored credential without a
\* refresh_token raises KeyError at line 121.  Every exception returns
\* (None, error).  outcome is what the token endpoint would answer.
get_spotify_client(tf, exp, outcome, values) ==
    IF tf = None
    THEN [client |-> None, token_file |-> tf, expired |-> exp]
    ELSE IF tf[1].access_token \in exp
         THEN IF tf[1].refresh_token /\ outcome \in values
              THEN [client |-> Some(outcome),
                    token_file |-> Some(Credential(outcome, TRUE)),
                    expired |-> exp \ {outcome}]
              ELSE [client |-> None, token_file |-> tf, expired |-> exp]
         ELSE [client |-> Some(tf[1].access_token), token_file |-> tf, expired |-> exp]

GetSpotifyClient(values) ==
    /\ pc = "idle" /\ sp = None
    /\ \E outcome \in {"Timeout", "HTTPError"} \cup values :
          LET c == get_spotify_client(token_file, expired, outcome, values) IN
          /\ token_file' = c.token_file
          /\ expired' = c.expired
          /\ sp' = c.client
    /\ UNCHANGED <<dbVars, runVars, histVars, logVars, raceVars, appVars, fnVars>>

\* the request's call through the client (sp.current_user() and the like)
ClientCall ==
    /\ sp # None
    /\ sp' = None
    /\ UNCHANGED <<token_file, dbVars, runVars, histVars, logVars, raceVars, appVars, fnVars, expired>>

\* the clock passes the expiry instant of an access value.  A request of
\* app.py builds its client and calls at once, within the margin
\* is_token_expired keeps before the expiry.
Expire(values) ==
    /\ sp = None
    /\ \E value \in values \ expired : expired' = expired \cup {value}
    /\ UNCHANGED <<token_file, dbVars, runVars, histVars, logVars, raceVars, appVars, fnVars, sp>>

----------------------------------------------------------------------------
(* app.py: /callback, /logout and the /me endpoints *)

\* query parameters of /callback, present or not
Codes == {None, Some("code")}
ErrorParams == {None, Some("access_denied")}

MeEndpoints == {"/me/profile", "/me/top-tracks", "/me/recently-played"}
\* the limit of /me/top-tracks and /me/recently-played: below, within and
\* above the accepted range; /me/profile takes none
MeLimits == {Some(0), Some(10), Some(51)}
LimitRefused(endpoint, limit) ==
    endpoint # "/me/profile" /\ (limit[1] < 1 \/ limit[1] > SpotifyLimit)

\* /callback: an error parameter, then a missing code, answer 400 before
\* anything else; otherwise get_access_token(code) answers with a credential,
\* which save_token writes, or raises, and every exception answers 500.
Callback(values) ==
    /\ pc = "idle" /\ sp = None
    /\ \E code \in Codes, error \in ErrorParams :
          /\ call' = [NoCall EXCEPT !.fn = "/callback", !.code = code, !.error = error]
          /\ IF error # None \/ code = None
             THEN /\ ret' = [NoRet EXCEPT !.returned = TRUE, !.status = 400]
                  /\ UNCHANGED <<token_file, expired, session>>
             ELSE \E outcome \in {"SpotifyOauthError"} \cup values, has_refresh \in BOOLEAN :
                    IF outcome \in values
                    THEN /\ token_file' = Some(Credential(outcome, has_refresh))
                         /\ expired' = expired \ {outcome}
                         /\ session' = [last |-> "callback", saved |-> token_file']
                         /\ ret' = [NoRet EXCEPT !.returned = TRUE, !.status = 200]
                    ELSE /\ ret' = [NoRet EXCEPT !.returned = TRUE, !.raised = outcome,
                                                 !.status = 500]
                         /\ UNCHANGED <<token_file, expired, session>>
    /\ UNCHANGED <<dbVars, runVars, histVars, logVars, raceVars, sp>>

\* /logout: clear_token removes the token file, if there is one, or raises
Logout ==
    /\ pc = "idle" /\ sp = None
    /\ call' = [NoCall EXCEPT !.fn = "/logout"]
    /\ \E outcome \in {"", "IOError"} :
          IF outcome = ""
          THEN /\ token_file' = None
               /\ session' = [last |-> "logout", saved |-> None]
               /\ ret' = [NoRet EXCEPT !.returned = TRUE, !.status = 200]
          ELSE /\ ret' = [NoRet EXCEPT !.returned = TRUE, !.raised = outcome, !.status = 500]
               /\ UNCHANGED <<token_file, session>>
    /\ UNCHANGED <<dbVars, runVars, histVars, logVars, raceVars, tokVars>>

\* the handler without its "except HTTPException: raise"
MeStatus_wrapped(client, answer) ==
    IF client # None /\ answer = "" THEN 200 ELSE 500

\* spotify_client raises HTTPException 401 without a client, which the
\* handler raises again; any other exception, of the call through the
\* client, answers 500
MeStatus(client, answer) ==
    IF client = None THEN 401 ELSE IF answer = "" THEN 200 ELSE 500

\* /me/profile, /me/top-tracks, /me/recently-played.  The two lists answer
\* 400 to a limit outside 1..50 before they ask for a client.
MeEndpoint(values) ==
    /\ pc = "idle" /\ sp = None
    /\ \E endpoint \in MeEndpoints,
          limit \in MeLimits,
          outcome \in {"HTTPError"} \cup values,
          answer \in {"", "SpotifyException"} :
          LET asked == IF endpoint = "/me/profile" THEN None ELSE limit
              c == get_spotify_client(token_file, expired, outcome, values)
          IN  /\ call' = [NoCall EXCEPT !.fn = endpoint, !.limit = asked]
              /\ IF LimitRefused(endpoint, limit)
                 THEN /\ ret' = [NoRet EXCEPT !.returned = TRUE, !.status = 400]
                      /\ UNCHANGED <<token_file, expired, session>>
                 ELSE /\ token_file' = c.token_file
                      /\ expired' = c.expired
                      /\ session' = IF c.token_file = token_file THEN session
                                    ELSE [session EXCEPT !.saved = c.token_file]
                      /\ ret' = [NoRet EXCEPT !.returned = TRUE,
                                              !.status = MeStatus(c.client, answer)]
    /\ UNCHANGED <<dbVars, runVars, histVars, logVars, raceVars, sp>>

----------------------------------------------------------------------------
(* db_utils.insert_track *)

InsertTrack(dicts) ==
    /\ pc = "idle"
    /\ tables_created
    /\ \E track \in dicts :
          tracks' = InsertOrIgnoreTrack(tracks, track.id,
                        TrackRow(track.name, track.artist, None, None,
                                 track.genre, track.features))
    /\ UNCHANGED <<token_file, tables_created, plays, download_history,
                   runVars, histVars, logVars, raceVars, appVars, fnVars, tokVars>>

----------------------------------------------------------------------------
(* ingest.main, one step at a time *)

\* main's locals, gone when main returns or raises
locals == <<access_token, request, items, idx, track_ids, track_artist_map,
            new_plays_count, batches, backfills>>

NoLocals ==
    /\ access_token' = "" /\ request' = None /\ items' = <<>> /\ idx' = 0
    /\ track_ids' = <<>> /\ track_artist_map' = EmptyTracks
    /\ new_plays_count' = 0 /\ batches' = <<>> /\ backfills' = <<>>

\* SQLite admits one write transaction at a time.  A connection opened by
\* sqlite3.connect begins a transaction at its first INSERT or UPDATE and
\* holds the write lock until it commits; the statement of another
\* connection that needs the lock waits, and raises "database is locked"
\* when the wait times out.
Locked_never(who) == FALSE

Locked(who) == writer \notin {"none", who}

\* commit: the lock is given up
Released(who) == IF writer = who THEN "none" ELSE writer

\* an error main caught without raising it: where, and the warning or error
\* entry the except clause wrote, if it wrote one
Caught(at, log) == [at |-> at, log |-> log]

\* lines 382-387: the exception is logged and raised to the caller
Raise(how) ==
    /\ pc' = "idle"
    /\ result' = how
    /\ NoLocals

\* lines 216-239: load_token and its checks
StartRun ==
    /\ pc = "idle" /\ sp = None
    /\ changed' = {} /\ same_feed' = FALSE
    /\ IF token_file # None /\ token_file[1].refresh_token
       THEN pc' = "refresh" /\ result' = "none" /\ UNCHANGED locals
       ELSE Raise("raised_no_token")
    /\ caught' = {}
    /\ UNCHANGED <<token_file, dbVars, raw, raceVars, appVars, fnVars, tokVars>>

\* lines 241-247: refresh_access_token answers with a new access value,
\* times out or is rejected; the new credential is not saved
RefreshAccessToken(values) ==
    /\ pc = "refresh"
    /\ \E outcome \in {"Timeout", "HTTPError"} \cup values :
          IF outcome \in values
          THEN /\ access_token' = outcome /\ pc' = "create_tables"
               /\ expired' = expired \ {outcome}
               /\ UNCHANGED <<result, request, items, idx, track_ids, track_artist_map,
                              new_plays_count, batches, backfills>>
          ELSE Raise("raised_refresh") /\ UNCHANGED expired
    /\ caught' = {}
    /\ UNCHANGED <<token_file, dbVars, raw, histVars, raceVars, appVars, fnVars, sp>>

\* line 250
CreateTables ==
    /\ pc = "create_tables"
    /\ LET db == create_tables(Tables) IN
          /\ tracks' = db.tracks
          /\ plays' = db.plays
          /\ download_history' = db.download_history
    /\ tables_created' = TRUE
    /\ pc' = "fetch"
    /\ UNCHANGED <<token_file, result, access_token, raw, request, items, idx, track_ids,
                   track_artist_map, new_plays_count, batches, backfills,
                   same_feed, raceVars, appVars, fnVars, tokVars>>
    /\ caught' = {}
    /\ changed' = changed \cup Modified

\* the limit main passes to get_all_recently_played
RequestedLimit == 50

\* get_last_download_time: last_downloaded_at of the latest checkpoint, if any
get_last_download_time ==
    IF download_history = <<>> THEN None
    ELSE Some(download_history[Len(download_history)].last_downloaded_at)

\* a mutant of FetchLimit: the initial download asks for one item
FetchLimit_initialone(initial_download, last_download) ==
    IF initial_download THEN 1 ELSE RequestedLimit

\* lines 253-264: the limit each of the three branches passes
FetchLimit(initial_download, last_download) ==
    IF initial_download THEN RequestedLimit
    ELSE IF last_download # None THEN RequestedLimit
         ELSE RequestedLimit

\* lines 252-264: the call of get_all_recently_played, which returns the
\* served items or raises on a timeout or an HTTP error status.  The caller
\* of main chooses initial_download.
FetchRecentlyPlayed(feeds) ==
    /\ pc = "fetch"
    /\ \/ \E feed \in feeds, initial_download \in BOOLEAN :
             LET limit == SentLimit(Some(FetchLimit(initial_download, get_last_download_time)))
             IN /\ request' = Some([initial_download |-> initial_download, limit |-> limit])
                /\ raw' = Some(Served(feed, limit))
                /\ same_feed' = (raw = Some(Served(feed, limit)))
                /\ pc' = "dedup"
                /\ UNCHANGED <<result, access_token, items, idx, track_ids,
                               track_artist_map, new_plays_count, batches, backfills>>
       \/ /\ Raise("raised_fetch")
          /\ UNCHANGED <<raw, same_feed>>
    /\ caught' = {}
    /\ UNCHANGED <<token_file, dbVars, changed, raceVars, appVars, fnVars, tokVars>>

\* lines 266-269: a KeyError of deduplicate_consecutive_plays leaves main
Deduplicate ==
    /\ pc = "dedup"
    /\ LET r == deduplicate_consecutive_plays(raw[1]) IN
          IF r.raised # ""
          THEN Raise("raised_dedup")
          ELSE /\ items' = r.value /\ idx' = 1 /\ pc' = "items"
               /\ request' = None
               /\ UNCHANGED <<result, access_token, track_ids, track_artist_map,
                              new_plays_count, batches, backfills>>
    /\ caught' = {}
    /\ UNCHANGED <<token_file, dbVars, raw, histVars, raceVars, appVars, fnVars, tokVars>>

\* genres[0] if genres else None; None when get_artist_genres raised
GenreStr(answer) ==
    IF answer.raised # "" \/ answer.genres = <<>> THEN None ELSE Some(answer.genres[1])

\* the errors of one genre lookup of the main pass: lines 297-298 set
\* genre_str to None and write nothing
CaughtInLookup(answer) ==
    IF answer.raised # "" THEN {Caught("genre_lookup", None)} ELSE {}

\* lines 278-324: one iteration of the loop over the deduplicated items.
\* An item without artists (line 283) or without a name (line 303) raises
\* KeyError before any statement is executed and is skipped with a warning;
\* the lookup of the genre comes between the two.
ProcessItem(genre_answers) ==
    /\ pc = "items"
    /\ idx <= Len(items)
    /\ LET item == items[idx]
           tid == item.track_id
           primary_artist_id == item.desc.artist_id
       IN IF item.missing \in {"artists", "name"}
          THEN /\ UNCHANGED <<tracks, plays, new_plays_count, track_ids, track_artist_map,
                              writer>>
               /\ \E answer \in (IF item.missing = "name" /\ primary_artist_id # None
                                  THEN genre_answers
                                  ELSE {[raised |-> "", genres |-> <<>>]}) :
                     caught' = CaughtInLookup(answer) \cup
                        {Caught("malformed_event", Some("Skipping malformed track item"))}
          ELSE \E answer \in (IF primary_artist_id # None THEN genre_answers
                              ELSE {[raised |-> "", genres |-> <<>>]}) :
                 /\ caught' = CaughtInLookup(answer)
                 /\ ~Locked("main")
                 /\ writer' = "main"
                 /\ tracks' = InsertOrIgnoreTrack(tracks, tid,
                                 TrackRow(item.desc.name, item.desc.artist,
                                          Some(item.desc.duration_ms),
                                          Some(item.desc.popularity),
                                          GenreStr(answer), NoFeatures))
                 /\ IF ~PlayExists(plays, tid, item.played_at)
                    THEN /\ plays' = InsertPlay(plays, tid, item.played_at, item.context)
                         /\ new_plays_count' = new_plays_count + 1
                    ELSE UNCHANGED <<plays, new_plays_count>>
                 /\ IF \A k \in 1..Len(track_ids) : track_ids[k] # tid
                    THEN /\ track_ids' = Append(track_ids, tid)
                         /\ track_artist_map' =
                               [t \in DOMAIN track_artist_map \cup {tid} |->
                                   IF t = tid THEN primary_artist_id
                                   ELSE track_artist_map[t]]
                    ELSE UNCHANGED <<track_ids, track_artist_map>>
    /\ idx' = idx + 1
    /\ UNCHANGED <<token_file, tables_created, download_history, pc, result,
                   access_token, raw, request, items, batches, backfills, same_feed,
                   other, appVars, fnVars, tokVars>>
    /\ changed' = changed \cup Modified

\* line 301 while another connection holds the write lock: the wait times
\* out and sqlite3.OperationalError, which is no KeyError, leaves main
ProcessItemLocked ==
    /\ pc = "items"
    /\ idx <= Len(items)
    /\ items[idx].missing \notin {"artists", "name"}
    /\ Locked("main")
    /\ Raise("raised_locked")
    /\ caught' = {}
    /\ UNCHANGED <<token_file, dbVars, raw, histVars, raceVars, appVars, fnVars, tokVars>>

\* line 326: conn.commit()
CommitItems ==
    /\ pc = "items"
    /\ idx > Len(items)
    /\ pc' = "backfill"
    /\ idx' = 1
    /\ UNCHANGED <<token_file, dbVars, result, access_token, raw, request, items, track_ids,
                   track_artist_map, new_plays_count, batches, backfills,
                   histVars, other, appVars, fnVars, tokVars>>
    /\ writer' = Released("main")
    /\ caught' = {}

\* lines 327-343: one iteration of the backfill loop.  The try encloses the
\* whole loop: a lookup that raises ends the loop.
BackfillGenre(genre_answers) ==
    /\ pc = "backfill"
    /\ idx <= Len(track_ids)
    /\ LET tid == track_ids[idx]
           current_genre == IF tid \in DOMAIN tracks THEN tracks[tid].genre ELSE None
           primary_artist_id == track_artist_map[tid]
       IN IF current_genre \in {None, Some("")} /\ primary_artist_id # None
          THEN \E answer \in genre_answers :
                 LET updates == GenreStr(answer) # None /\ GenreStr(answer) # Some("") IN
                 /\ backfills' = Append(backfills, [track_id |-> tid, answer |-> answer])
                 /\ IF answer.raised # "" \/ (updates /\ Locked("main"))
                    THEN /\ pc' = "features" /\ idx' = 1 /\ UNCHANGED <<tracks, writer>>
                         /\ caught' = {Caught("genre_backfill",
                                               Some("Failed to backfill genres"))}
                    ELSE /\ tracks' = IF updates
                                      THEN UpdateGenre(tracks, tid, GenreStr(answer))
                                      ELSE tracks
                         /\ writer' = IF updates THEN "main" ELSE writer
                         /\ idx' = idx + 1 /\ UNCHANGED pc
                         /\ caught' = {}
          ELSE idx' = idx + 1 /\ caught' = {} /\ UNCHANGED <<pc, tracks, backfills, writer>>
    /\ UNCHANGED <<token_file, tables_created, plays, download_history, result,
                   access_token, raw, request, items, track_ids, track_artist_map,
                   new_plays_count, batches, same_feed, other, appVars, fnVars, tokVars>>
    /\ changed' = changed \cup Modified

\* line 341: conn.commit() after the loop
CommitBackfill ==
    /\ pc = "backfill"
    /\ idx > Len(track_ids)
    /\ pc' = "features"
    /\ idx' = 1
    /\ UNCHANGED <<token_file, dbVars, result, access_token, raw, request, items, track_ids,
                   track_artist_map, new_plays_count, batches, backfills,
                   histVars, other, appVars, fnVars, tokVars>>
    /\ writer' = Released("main")
    /\ caught' = {}

Last(q) == q[Len(q)]

\* a mutant of NextBatchStart: a batch that raised ends the loop
NextBatchStart_break(i, raised, n) == IF raised # "" THEN n + 1 ELSE i + BatchSize

\* the next i of range(0, len(track_ids), 100); the except clause continues
NextBatchStart(i, raised, n) == i + BatchSize

\* lines 348-369: one batch.  get_audio_features raises (its own checks, a
\* timeout, an HTTP error status) or returns one entry per id, null for a
\* track without data.
FeaturesBatch(entries) ==
    /\ pc = "features"
    /\ idx <= Len(track_ids)
    /\ LET batch == SubSeq(track_ids, idx, Min(idx + BatchSize - 1, Len(track_ids))) IN
          IF AudioFeaturesRejects(access_token, batch, TRUE)
          THEN /\ batches' = Append(batches, [ids |-> batch, raised |-> "ValueError",
                                              requests |-> 0, audio_features |-> <<>>])
               /\ UNCHANGED <<tracks, writer>>
          ELSE \/ \E how \in {"Timeout", "HTTPError"} :
                     /\ batches' = Append(batches, [ids |-> batch, raised |-> how,
                                                    requests |-> 1, audio_features |-> <<>>])
                     /\ UNCHANGED <<tracks, writer>>
               \/ \E fs \in [1..Len(batch) -> entries] :
                     LET updates == \E k \in 1..Len(batch) : fs[k] # None IN
                     IF updates /\ Locked("main")
                     THEN /\ batches' = Append(batches, [ids |-> batch,
                                                         raised |-> "OperationalError",
                                                         requests |-> 1,
                                                         audio_features |-> fs])
                          /\ UNCHANGED <<tracks, writer>>
                     ELSE /\ batches' = Append(batches, [ids |-> batch, raised |-> "",
                                                         requests |-> 1,
                                                         audio_features |-> fs])
                          /\ tracks' = ApplyFeatures(tracks, batch, fs)
                          /\ writer' = IF updates THEN "main" ELSE writer
    /\ idx' = NextBatchStart(idx, Last(batches').raised, Len(track_ids))
    /\ caught' = IF Last(batches').raised # ""
                 THEN {Caught("features_batch", Some("Error fetching features for batch"))}
                 ELSE {}
    /\ UNCHANGED <<token_file, tables_created, plays, download_history, pc, result,
                   access_token, raw, request, items, track_ids, track_artist_map,
                   new_plays_count, backfills, same_feed, other, appVars, fnVars, tokVars>>
    /\ changed' = changed \cup Modified

\* a mutant of save_download_history: the checkpoint row is replaced
save_download_history_replace(rows, timestamp, count) ==
    <<[id |-> 1, last_downloaded_at |-> timestamp, songs_downloaded |-> count]>>

\* INSERT INTO download_history (last_downloaded_at, songs_downloaded)
save_download_history(rows, timestamp, count) ==
    Append(rows, [id |-> Len(rows) + 1, last_downloaded_at |-> timestamp,
                  songs_downloaded |-> count])

\* lines 375-377: new_plays_count > 0 and a latest played_at
CheckpointDue(count, its) == count > 0 /\ its # <<>>

\* lines 371-380: commit, close, then save_download_history when plays were
\* added; save_download_history, on a connection of its own, logs an error
\* of the store (the lock of another connection among them) and returns
FinishRun(write_outcomes) ==
    /\ pc = "features"
    /\ idx > Len(track_ids)
    /\ IF CheckpointDue(new_plays_count, items)
       THEN \E written \in (IF Locked("main") THEN {FALSE} ELSE write_outcomes) :
              /\ download_history' =
                    IF written
                    THEN save_download_history(download_history, LatestPlay(items),
                                               new_plays_count)
                    ELSE download_history
              /\ caught' = IF written THEN {}
                           ELSE {Caught("checkpoint_write",
                                        Some("Error saving download history"))}
       ELSE download_history' = download_history /\ caught' = {}
    /\ pc' = "idle"
    /\ result' = "completed"
    /\ NoLocals
    /\ writer' = Released("main")
    /\ UNCHANGED <<token_file, tables_created, tracks, plays, raw, same_feed, other,
                   appVars, fnVars, tokVars>>
    /\ changed' = changed \cup Modified

----------------------------------------------------------------------------
(* What the outside answers *)

\* whether the INSERT of save_download_history goes through
WritesBasic == {TRUE}
WritesAll == {TRUE, FALSE}

\* the access values the token endpoint hands out
AccessValuesBasic == {"tok"}
AccessValuesAll == {"t1", "t2"}

\* get_artist_genres: raises, or returns the artist's genres
GenreFails == [raised |-> "Exception", genres |-> <<>>]
GenreAnswersBasic == {GenreFails, [raised |-> "", genres |-> <<"rock">>]}
GenreAnswersAll ==
    {GenreFails, [raised |-> "", genres |-> <<>>],
     [raised |-> "", genres |-> <<"pop", "rock">>]}

\* entries of audio_features: null, or an object; the second object has no energy
Features1 == [energy |-> Some(1), danceability |-> Some(1), valence |-> Some(1), tempo |-> Some(1)]
Features2 == [energy |-> None, danceability |-> Some(2), valence |-> Some(2), tempo |-> Some(2)]
FeatureEntriesBasic == {Some(Features1)}
FeatureEntriesAll == {None, Some(Features1), Some(Features2)}

\* feeds of the persistence runs: track A played twice 250 s apart, its
\* description changed in between, and track B
FeedEvents ==
    {Event("A", <<0, 0>>, Desc1, "none"), Event("A", <<4, 10>>, Desc2, "none"),
     Event("B", <<5, 0>>, Desc1, "none")}
Feeds == {s \in SeqsUpTo(FeedEvents, MaxFeed) : Ordered(s)}

\* feeds of the enrichment runs: up to three tracks, newest first
EnrichFeed ==
    << Event("C", <<20, 0>>, Desc1, "none"), Event("B", <<10, 0>>, Desc1, "none"),
       Event("A", <<0, 0>>, Desc1, "none") >>
EnrichFeeds == {SubSeq(EnrichFeed, k, 3) : k \in 1..3}

\* the dicts handed to insert_track
TrackDicts ==
    {[id |-> "A", name |-> "m", artist |-> "w", genre |-> Some(""), features |-> Features1]}

Init ==
    /\ InitPipeline
    /\ call = NoCall
    /\ ret = NoRet

Next ==
    \/ SaveToken(AccessValuesBasic)
    \/ ClearToken
    \/ InsertTrack(TrackDicts)
    \/ StartRun
    \/ RefreshAccessToken(AccessValuesBasic)
    \/ CreateTables
    \/ FetchRecentlyPlayed(Feeds)
    \/ Deduplicate
    \/ ProcessItem(GenreAnswersBasic)
    \/ CommitItems
    \/ BackfillGenre(GenreAnswersBasic)
    \/ CommitBackfill
    \/ FeaturesBatch(FeatureEntriesBasic)
    \/ FinishRun(WritesBasic)

Spec == Init /\ [][Next]_vars

NextEnrich ==
    \/ SaveToken(AccessValuesBasic)
    \/ StartRun
    \/ RefreshAccessToken(AccessValuesBasic)
    \/ CreateTables
    \/ FetchRecentlyPlayed(EnrichFeeds)
    \/ Deduplicate
    \/ ProcessItem(GenreAnswersAll)
    \/ CommitItems
    \/ BackfillGenre(GenreAnswersAll)
    \/ CommitBackfill
    \/ FeaturesBatch(FeatureEntriesAll)
    \/ FinishRun(WritesBasic)

SpecEnrich == Init /\ [][NextEnrich]_vars

----------------------------------------------------------------------------
(* Claims about deduplicate_consecutive_plays, checked under SpecFn *)

DedupReturned ==
    call.fn = "deduplicate_consecutive_plays" /\ ret.returned /\ ret.raised = ""

KeptSet == {ret.kept[k] : k \in 1..Len(ret.kept)}

SameTrack(a, b) == call.items[a].track_id = call.items[b].track_id

\* seconds between the events at positions a and b
Gap(a, b) ==
    LET ta == call.items[a].played_at[1] * 60 + call.items[a].played_at[2]
        tb == call.items[b].played_at[1] * 60 + call.items[b].played_at[2]
    IN IF ta < tb THEN tb - ta ELSE ta - tb

\* positions a..b hold one track, every event less than 300 s from the first
AnchorRun(a, b) == \A k \in a..b : SameTrack(a, k) /\ Gap(a, k) < 300

MaximalAnchorRun(a, b) ==
    /\ AnchorRun(a, b)
    /\ b = Len(call.items) \/ ~AnchorRun(a, b + 1)
    /\ a = 1 \/ ~AnchorRun(a - 1, b)

\* positions a..b hold one track, every event less than 300 s from its predecessor
ChainRun(a, b) ==
    /\ \A k \in a..b : SameTrack(a, k)
    /\ \A k \in a..(b - 1) : Gap(k, k + 1) < 300

MaximalChainRun(a, b) ==
    /\ ChainRun(a, b)
    /\ b = Len(call.items) \/ ~ChainRun(a, b + 1)
    /\ a = 1 \/ ~ChainRun(a - 1, b)

Positions == 1..Len(call.items)

ExampleFeed ==
    << Event("A", <<0, 0>>, Desc1, "none"), Event("A", <<2, 0>>, Desc1, "none"),
       Event("A", <<4, 10>>, Desc1, "none"), Event("B", <<6, 40>>, Desc1, "none") >>

\* C3: every maximal run of two or more consecutive events of one track that
\* all lie less than 300 s from the run's first event is returned as exactly
\* one event; the scan's runs start at position 1 and after each run, each
\* run giving its first event; A@0, A@120, A@250, B@400 gives A@0 and B@400.
C3_AnchorRunsCollapse ==
    DedupReturned =>
        /\ \A a, b \in Positions :
              (a < b /\ MaximalAnchorRun(a, b)) => Cardinality(KeptSet \cap (a..b)) = 1
        /\ call.items # <<>> => ret.kept[1] = 1
        /\ \A k \in 1..Len(ret.kept) :
              LET p == ret.kept[k]
                  q == IF k < Len(ret.kept) THEN ret.kept[k + 1] ELSE Len(call.items) + 1
              IN /\ p < q
                 /\ AnchorRun(p, q - 1)
                 /\ q <= Len(call.items) => ~(SameTrack(p, q) /\ Gap(p, q) < 300)
        /\ ret.value = [k \in 1..Len(ret.kept) |-> call.items[ret.kept[k]]]
        /\ call.items = ExampleFeed => ret.value = <<ExampleFeed[1], ExampleFeed[4]>>

\* a run of three events within the window was given and one event came back for it
C3_Witness ==
    /\ DedupReturned
    /\ call.items = ExampleFeed
    /\ MaximalAnchorRun(1, 3)
    /\ ret.kept = <<1, 4>>

\* C4 as claimed: a run of consecutive events of one track, each less than
\* 300 s from its predecessor, is returned as exactly one event, whatever the
\* distance between its first and last event.
C4_ChainRunsCollapse ==
    DedupReturned =>
        \A a, b \in Positions :
            (a < b /\ MaximalChainRun(a, b)) => Cardinality(KeptSet \cap (a..b)) = 1

\* C4 amended: such a run is returned as exactly one event (its first) when
\* every event of it is also less than 300 s from the run's first event, and
\* as two or more events when some event is 300 s or more from the first.
C4_ChainRunsWithinAnchorWindow ==
    DedupReturned =>
        \A a, b \in Positions :
            (a < b /\ MaximalChainRun(a, b)) =>
                /\ a \in KeptSet
                /\ (\A k \in a..b : Gap(a, k) < 300) => KeptSet \cap (a..b) = {a}
                /\ (\E k \in a..b : Gap(a, k) >= 300) => Cardinality(KeptSet \cap (a..b)) >= 2

\* a chain of three events that stays within 300 s of its first event was merged
C4_Witness ==
    /\ DedupReturned
    /\ \E a, b \in Positions :
          /\ b >= a + 2 /\ MaximalChainRun(a, b)
          /\ \A k \in a..b : Gap(a, k) < 300
          /\ Gap(a, b) > Gap(a, a + 1)
          /\ KeptSet \cap (a..b) = {a}

----------------------------------------------------------------------------
(* Claims about get_audio_features, checked under SpecFn *)

FeaturesReturned == call.fn = "get_audio_features" /\ ret.returned

\* C9: with more than 100 identifiers get_audio_features raises without
\* sending a request; with a list of 1 to 100 identifiers (and an access
\* token) it sends exactly one request, whether or not the request succeeds.
C9_BatchCeiling ==
    FeaturesReturned =>
        /\ Len(call.ids) > 100 => (ret.raised = "ValueError" /\ ret.requests = 0)
        /\ (call.access_token # "" /\ call.is_list /\ Len(call.ids) \in 1..100) =>
              ret.requests = 1

\* 101 identifiers were given and the call raised before any request
C9_Witness ==
    /\ FeaturesReturned
    /\ call.access_token # "" /\ call.is_list /\ Len(call.ids) = 101
    /\ ret.raised = "ValueError" /\ ret.requests = 0

----------------------------------------------------------------------------
(* Claims about the runs of ingest.main, checked under Spec *)

\* C1: a run that fetches the list the run before it fetched inserts no
\* play row: no step of it modifies plays.
C1_SecondRunInsertsNothing ==
    same_feed => "plays" \notin changed

\* a run completed on the two-event list the run before it had stored
C1_Witness ==
    /\ pc = "idle" /\ result = "completed" /\ same_feed
    /\ Len(raw[1]) = 2 /\ Len(plays) = 2
    /\ "plays" \notin changed

\* C2: no two rows of plays share (track_id, played_at), in any state that
\* sequential runs over any feeds reach.
C2_UniquePlays ==
    \A i, j \in 1..Len(plays) :
        (plays[i].track_id = plays[j].track_id /\ plays[i].played_at = plays[j].played_at)
            => i = j

\* a run was offered plays that were all stored already and added none
C2_Witness ==
    /\ pc = "items" /\ idx > Len(items) /\ Len(items) = 2
    /\ new_plays_count = 0
    /\ \A k \in 1..Len(items) :
          \E i \in 1..Len(plays) :
              plays[i].track_id = items[k].track_id /\ plays[i].played_at = items[k].played_at

\* C6: a run that fails for want of a credential, at the token refresh or at
\* the history fetch ends raised with no table modified; no step up to and
\* including the fetch modifies a table.
C6_FailedRunLeavesTables ==
    /\ result \in {"raised_no_token", "raised_refresh", "raised_fetch"} =>
          (pc = "idle" /\ changed = {})
    /\ pc \in {"refresh", "create_tables", "fetch", "dedup"} => changed = {}

\* the fetch failed on a store that held tracks, plays and a checkpoint
C6_Witness ==
    /\ result = "raised_fetch" /\ pc = "idle"
    /\ DOMAIN tracks # {} /\ plays # <<>> /\ download_history # <<>>
    /\ changed = {}

\* C7: no step changes track_name, artist, duration_ms or popularity of an
\* existing row of tracks, or removes the row.
C7_FirstWriteWins ==
    [][\A tid \in DOMAIN tracks :
          /\ tid \in DOMAIN tracks'
          /\ tracks'[tid].track_name = tracks[tid].track_name
          /\ tracks'[tid].artist = tracks[tid].artist
          /\ tracks'[tid].duration_ms = tracks[tid].duration_ms
          /\ tracks'[tid].popularity = tracks[tid].popularity]_vars

\* an item naming a stored track differently was processed and the row kept its name
C7_Witness ==
    /\ pc = "items" /\ idx > 1
    /\ items[idx - 1].track_id \in DOMAIN tracks
    /\ tracks[items[idx - 1].track_id].track_name # items[idx - 1].desc.name
    /\ tracks[items[idx - 1].track_id].popularity # Some(items[idx - 1].desc.popularity)

----------------------------------------------------------------------------
(* Claims about enrichment, checked under SpecEnrich *)

EnrichedColumns(row) == <<row.genre, row.energy, row.danceability, row.valence, row.tempo>>

\* an enrichment step keeps every non-null enriched column of every row
EnrichmentKeepsValues ==
    pc \in {"backfill", "features"} =>
        \A tid \in DOMAIN tracks : \A c \in 1..5 :
            EnrichedColumns(tracks[tid])[c] # None =>
                EnrichedColumns(tracks'[tid])[c] = EnrichedColumns(tracks[tid])[c]

\* C8 as claimed: an enrichment step (genre backfill, audio-features update)
\* never changes a non-null genre, energy, danceability, valence or tempo.
C8_EnrichmentFillsOnlyNulls == [][EnrichmentKeepsValues]_vars

\* the k-th slice of track_ids
Slice(k) == SubSeq(track_ids, (k - 1) * BatchSize + 1,
                   IF k * BatchSize < Len(track_ids) THEN k * BatchSize ELSE Len(track_ids))

\* the step is a request for a batch
BatchStep == pc = "features" /\ Len(batches') = Len(batches) + 1

\* C10: a batch whose call raises leaves tracks as it was and the run goes
\* on: every slice of track_ids is requested once, in order, whatever the
\* earlier batches did; a batch that returns is applied to its own tracks;
\* from the batches the run can only go on to its checkpoint step and complete.
C10_BatchFailureIsSkipped ==
    /\ [](pc = "features" =>
            /\ result = "none"
            /\ idx = Len(batches) * BatchSize + 1
            /\ \A k \in 1..Len(batches) :
                  batches[k].ids = Slice(k) /\ batches[k].requests = 1
            /\ idx > Len(track_ids) => ENABLED FinishRun(WritesBasic))
    /\ [][BatchStep =>
            LET b == batches'[Len(batches')] IN
            /\ pc' = "features" /\ result' = "none"
            /\ b.raised # "" => tracks' = tracks
            /\ b.raised = "" =>
                  /\ DOMAIN tracks' = DOMAIN tracks
                  /\ \A j \in 1..Len(b.ids) :
                        LET old == tracks[b.ids[j]]
                            new == tracks'[b.ids[j]]
                            f == b.audio_features[j]
                        IN IF f = None THEN new = old
                           ELSE /\ new.energy = f[1].energy
                                /\ new.danceability = f[1].danceability
                                /\ new.valence = f[1].valence
                                /\ new.tempo = f[1].tempo
                  /\ \A t \in DOMAIN tracks :
                        (\A j \in 1..Len(b.ids) : b.ids[j] # t) => tracks'[t] = tracks[t]]_vars
    /\ [][pc = "features" =>
            \/ pc' = "features" /\ idx' > idx
            \/ pc' = "idle" /\ result' = "completed"]_vars

\* the first batch raised, its tracks have no features, and the second
\* batch was requested and applied
C10_Witness ==
    /\ pc = "features" /\ Len(batches) = 2
    /\ batches[1].raised = "Timeout" /\ Len(batches[1].ids) = 2
    /\ \A j \in 1..2 : tracks[batches[1].ids[j]].energy = None
    /\ batches[2].raised = "" /\ batches[2].audio_features[1] # None
    /\ tracks[batches[2].ids[1]].tempo # None

----------------------------------------------------------------------------
(* Claims about the genre backfill, checked under SpecEnrich *)

\* the backfill pass has looked up the genre of tid
BackfillAttempted(tid) == \E k \in 1..Len(backfills) : backfills[k].track_id = tid

\* C11 as claimed: when the backfill pass is over, every track of the run
\* that has a primary artist id and whose genre is still null has had its
\* lookup re-attempted in the pass, whatever the lookups of other tracks did.
C11_BackfillRetriesEveryTrack ==
    (pc = "features" /\ batches = <<>>) =>
        \A k \in 1..Len(track_ids) :
            (tracks[track_ids[k]].genre = None /\ track_artist_map[track_ids[k]] # None)
                => BackfillAttempted(track_ids[k])

----------------------------------------------------------------------------
(* Claims about detect_skipped, checked under SpecFn *)

SkipReturned == call.fn = "detect_skipped" /\ ret.returned /\ call.rows # None

\* the played_at texts of the table that are strictly greater than the call's
LaterPlays ==
    {call.rows[1][k].played_at : k \in {j \in 1..Len(call.rows[1]) :
        TextLess(call.played_at, call.rows[1][j].played_at)}}

\* seconds from the call's play to the earliest later play
GapToNext ==
    LET next == CHOOSE p \in LaterPlays : \A q \in LaterPlays : ~TextLess(q, p)
    IN fromisoformat(next) - fromisoformat(call.played_at)

\* C12: with a later play in the table, the play is classified skipped if
\* and only if the gap to the earliest later play, in seconds, is strictly
\* less than duration_ms / 2000, and played otherwise; a gap equal to half
\* the duration is played.
C12_SkippedIffBeforeHalf ==
    (SkipReturned /\ LaterPlays # {} /\ call.duration_ms # None) =>
        /\ ret.was_skipped <=> (GapToNext * 2000 < call.duration_ms[1])
        /\ ret.skip_indicator = IF ret.was_skipped THEN ">> (skipped)" ELSE "ok (played)"

\* duration 200000 ms and the next play 100 s later: played
C12_Witness ==
    /\ SkipReturned /\ LaterPlays # {} /\ call.duration_ms = Some(200000)
    /\ GapToNext = 100
    /\ ~ret.was_skipped /\ ret.skip_indicator = "ok (played)"

\* C13: for a play with no later play in the table the answer is unknown,
\* never skipped or played, whatever the duration.
C13_NoNextPlayIsUnknown ==
    (SkipReturned /\ LaterPlays = {}) =>
        ~ret.was_skipped /\ ret.skip_indicator = "|| (unknown)"

\* the latest of three plays, of a track with a duration
C13_Witness ==
    /\ SkipReturned /\ LaterPlays = {} /\ Len(call.rows[1]) = 3
    /\ call.duration_ms = Some(180000)
    /\ ret.skip_indicator = "|| (unknown)"

----------------------------------------------------------------------------
(* Runs over feeds that hold a malformed event *)

\* the required keys an event can lack
RequiredKeys == {"track", "id", "name", "artists", "played_at"}

\* track A well formed, track B well formed or lacking one required key
MalformedEvents ==
    {Event("A", <<0, 0>>, Desc1, "none")}
    \cup {Event("B", <<5, 0>>, Desc1, m) : m \in RequiredKeys \cup {"none"}}

MalformedFeeds ==
    {s \in SeqsUpTo(MalformedEvents, MaxFeed) :
        Ordered(s) /\ \A i, j \in 1..Len(s) : s[i].track_id = s[j].track_id => i = j}

NextMalformed ==
    \/ SaveToken(AccessValuesBasic)
    \/ StartRun
    \/ RefreshAccessToken(AccessValuesBasic)
    \/ CreateTables
    \/ FetchRecentlyPlayed(MalformedFeeds)
    \/ Deduplicate
    \/ ProcessItem(GenreAnswersBasic)
    \/ CommitItems
    \/ BackfillGenre(GenreAnswersBasic)
    \/ CommitBackfill
    \/ FeaturesBatch(FeatureEntriesBasic)
    \/ FinishRun(WritesBasic)

SpecMalformed == Init /\ [][NextMalformed]_vars

\* the run that fetched raw is over
FetchedRunOver == pc = "idle" /\ result \in {"completed", "raised_dedup"}

\* C14 as claimed: a run whose fetched list holds an event that lacks a
\* required key completes, and the track and the play of every well-formed
\* event of the list are stored.
C14_MalformedEventsAreSkipped ==
    FetchedRunOver =>
        /\ result = "completed"
        /\ \A k \in 1..Len(raw[1]) :
              raw[1][k].missing = "none" =>
                 /\ raw[1][k].track_id \in DOMAIN tracks
                 /\ PlayExists(plays, raw[1][k].track_id, raw[1][k].played_at)

----------------------------------------------------------------------------
(* Credentials: runs and requests with two access values and a clock *)

TokenFeeds == {<< Event("A", <<0, 0>>, Desc1, "none") >>}

NextToken ==
    \/ SaveToken(AccessValuesAll)
    \/ ClearToken
    \/ GetSpotifyClient(AccessValuesAll)
    \/ ClientCall
    \/ Expire(AccessValuesAll)
    \/ StartRun
    \/ RefreshAccessToken(AccessValuesAll)
    \/ CreateTables
    \/ FetchRecentlyPlayed(TokenFeeds)
    \/ Deduplicate
    \/ ProcessItem(GenreAnswersBasic)
    \/ CommitItems
    \/ BackfillGenre(GenreAnswersBasic)
    \/ CommitBackfill
    \/ FeaturesBatch(FeatureEntriesBasic)
    \/ FinishRun(WritesBasic)

SpecToken == Init /\ [][NextToken]_vars

\* the step of ingest.main sends a request with access_token: the history
\* fetch, a genre lookup of the item loop or of the backfill, a batch request
OutboundOfMain ==
    \/ pc = "fetch"
    \/ /\ pc = "items" /\ idx <= Len(items)
       /\ items[idx].missing # "artists" /\ items[idx].desc.artist_id # None
    \/ pc = "backfill" /\ backfills' # backfills
    \/ /\ pc = "features" /\ Len(batches') > Len(batches)
       /\ batches'[Len(batches')].requests = 1

\* the step of a request of app.py calls through its client
OutboundOfClient == sp # None /\ sp' = None

\* the token file holds a credential with this access value
Stored(value) == token_file # None /\ token_file[1].access_token = value

CallsUseStoredCredential ==
    /\ OutboundOfMain => Stored(access_token)
    /\ OutboundOfClient => Stored(sp[1])

\* C15 as claimed: every outbound call is made with the access value of the
\* credential the token file holds, a new credential being saved before its
\* access value is used.
C15_RefreshThenPersist == [][CallsUseStoredCredential]_vars

CallsUseUnexpiredValue ==
    /\ OutboundOfMain => access_token \notin expired
    /\ OutboundOfClient => sp[1] \notin expired

\* C16 as claimed: no outbound call is made with an access value whose
\* expiry instant has passed (after a refresh attempt the value in use is a
\* new one, or no call is made).
C16_NoCallPastExpiry == [][CallsUseUnexpiredValue]_vars

----------------------------------------------------------------------------
(* Checkpoints: runs over small feeds, the checkpoint write failing or not *)

\* up to MaxFeed plays of two tracks, or none
CheckpointFeeds ==
    {s \in SeqsUpTo({Event("A", <<0, 0>>, Desc1, "none"),
                     Event("B", <<5, 0>>, Desc1, "none")}, MaxFeed) :
        ReverseChronological(s) /\ \A i, j \in 1..Len(s) : s[i] = s[j] => i = j}

NextCheckpoint ==
    \/ SaveToken(AccessValuesBasic)
    \/ StartRun
    \/ RefreshAccessToken(AccessValuesBasic)
    \/ CreateTables
    \/ FetchRecentlyPlayed(CheckpointFeeds)
    \/ Deduplicate
    \/ ProcessItem(GenreAnswersBasic)
    \/ CommitItems
    \/ BackfillGenre(GenreAnswersBasic)
    \/ CommitBackfill
    \/ FeaturesBatch(FeatureEntriesBasic)
    \/ FinishRun(WritesAll)

SpecCheckpoint == Init /\ [][NextCheckpoint]_vars

\* a step leaves download_history as it is or adds one row at its end
AppendsOrKeeps ==
    \/ download_history' = download_history
    \/ /\ Len(download_history') = Len(download_history) + 1
       /\ SubSeq(download_history', 1, Len(download_history)) = download_history

\* C17: no step updates or deletes a row of download_history: each step
\* keeps the table or appends exactly one row, so the rows of a state are a
\* prefix of the rows of every later state.
C17_CheckpointsAppendOnly == [][AppendsOrKeeps]_vars

\* a second checkpoint was appended after the first, which is still there
C17_Witness ==
    /\ pc = "idle" /\ result = "completed" /\ "download_history" \in changed
    /\ Len(download_history) = 2
    /\ download_history[1].id = 1 /\ download_history[2].id = 2
    /\ download_history[1].songs_downloaded = 1
    /\ download_history[2].songs_downloaded = 1

\* the step completes a run of ingest.main
CompletesRun == pc = "features" /\ pc' = "idle" /\ result' = "completed"

\* C18 as claimed: every run that completes appends exactly one checkpoint
\* row, a run that found every play stored and a run over an empty feed
\* included.
C18_CheckpointPerCompletedRun ==
    [][CompletesRun => Len(download_history') = Len(download_history) + 1]_vars

RECURSIVE SumDownloaded(_)
SumDownloaded(rows) ==
    IF rows = <<>> THEN 0
    ELSE rows[1].songs_downloaded + SumDownloaded(Tail(rows))

\* C19 as claimed: between runs, whether they completed or failed and
\* whether their checkpoint write went through, the number of rows of plays
\* is the sum of songs_downloaded over download_history.
C19_CheckpointCountsAccountForPlays ==
    pc = "idle" => Len(plays) = SumDownloaded(download_history)

\* the request main sends in a mode, given the checkpoints of the state
RequestOf(initial_download) ==
    SentLimit(Some(FetchLimit(initial_download, get_last_download_time)))

----------------------------------------------------------------------------
(* Claims about the targets of enrichment, checked under Spec *)

\* the step processes an item of a track that an earlier run or insert_track
\* stored: the track has a row and this run has not met it yet
ProcessesStoredTrack ==
    /\ pc = "items" /\ idx <= Len(items)
    /\ items[idx].missing \notin {"artists", "name"}
    /\ items[idx].track_id \in DOMAIN tracks
    /\ \A k \in 1..Len(track_ids) : track_ids[k] # items[idx].track_id

\* C21 as claimed: a track that had a row before the run is not among the
\* ids the run sends to the audio-features endpoint and looks up in the
\* backfill (track_ids holds only the tracks the run stored).
C21_EnrichmentTargetsNewTracks == [][ProcessesStoredTrack => track_ids' = track_ids]_vars

----------------------------------------------------------------------------
(* C22: the bounded window of get_all_recently_played *)

\* the limit a caller asked for, None read as the ceiling
AskedLimit == IF call.limit = None THEN SpotifyLimit ELSE call.limit[1]

RecentlyPlayedReturned == call.fn = "get_all_recently_played" /\ ret.returned

\* C22: whatever limit is requested (none, or above 50), get_all_recently_played
\* sends min(requested, 50) with none read as 50, sends exactly one request
\* even when fewer items than requested come back, and returns without error
\* at most 50 items when the service answers within the limit
C22_BoundedWindow ==
    (RecentlyPlayedReturned /\ call.access_token # "") =>
        /\ ret.sent_limit = Some(Min(AskedLimit, SpotifyLimit))
        /\ ret.requests = 1
        /\ ret.raised \in {"", "Timeout", "HTTPError"}
        /\ (ret.raised = "" /\ Len(ret.value) <= ret.sent_limit[1]) =>
              Len(ret.value) <= SpotifyLimit

\* a request for 100 items of a service holding more than 50 returned 50,
\* fewer than requested, after one request
C22_Witness ==
    /\ RecentlyPlayedReturned
    /\ call.limit = Some(100)
    /\ ret.raised = ""
    /\ Len(ret.value) = SpotifyLimit
    /\ ret.requests = 1

----------------------------------------------------------------------------
(* C23: no error is swallowed without a log entry *)

\* C23: every error main catches and lets pass (genre lookup of the main
\* pass, genre backfill, audio-features batch, malformed event, checkpoint
\* write) has written at least one log entry when the run continues
C23_NoSilentSwallowing == \A c \in caught : c.log # None

----------------------------------------------------------------------------
(* A second run of ingest.main, concurrent with the first.  Both runs use   *)
(* the same database file through connections of their own (line 271).     *)
(* The statements of the second run's item loop are steps of their own, so *)
(* that the first run can act between its SELECT COUNT and its INSERT.      *)
(* The second run is followed in an environment in which no artist has a    *)
(* genre and no track has audio features: after its commit of line 326 it  *)
(* changes the store by its checkpoint only.                                *)

\* get_artist_genres answers with no genre
NoGenreAnswers == {[raised |-> "", genres |-> <<>>]}

\* the feeds of the concurrent runs, newest first
RaceFeeds ==
    {<<Event("A", <<0, 0>>, Desc1, "none")>>,
     <<Event("B", <<2, 0>>, Desc2, "none"), Event("A", <<0, 0>>, Desc1, "none")>>}

OtherItem == other.items[other.idx]

\* lines 216-276: token, refresh, create_tables on existing tables, fetch
\* and deduplication, none of which writes the store
OtherStart(feeds) ==
    /\ other.pc = "idle"
    /\ tables_created
    /\ token_file # None /\ token_file[1].refresh_token
    /\ \E feed \in feeds :
          LET r == deduplicate_consecutive_plays(
                       Served(feed, SentLimit(Some(RequestedLimit))))
          IN /\ r.raised = ""
             /\ other' = [NoOther EXCEPT !.pc = "items", !.items = r.value, !.idx = 1]
    /\ UNCHANGED <<token_file, dbVars, runVars, histVars, logVars, writer, appVars, fnVars, tokVars>>

\* lines 280-304: INSERT OR IGNORE INTO tracks begins the write transaction
OtherInsertTrack(genre_answers) ==
    /\ other.pc = "items"
    /\ other.idx <= Len(other.items)
    /\ ~Locked("other")
    /\ writer' = "other"
    /\ \E answer \in (IF OtherItem.desc.artist_id # None THEN genre_answers
                      ELSE NoGenreAnswers) :
          tracks' = InsertOrIgnoreTrack(tracks, OtherItem.track_id,
                       TrackRow(OtherItem.desc.name, OtherItem.desc.artist,
                                Some(OtherItem.desc.duration_ms),
                                Some(OtherItem.desc.popularity),
                                GenreStr(answer), NoFeatures))
    /\ other' = [other EXCEPT !.pc = "check"]
    /\ UNCHANGED <<token_file, tables_created, plays, download_history, runVars,
                   histVars, logVars, appVars, fnVars, tokVars>>

\* line 301 while the first run holds the write lock: the wait times out and
\* the second run ends with sqlite3.OperationalError
OtherLocked ==
    /\ other.pc = "items"
    /\ other.idx <= Len(other.items)
    /\ Locked("other")
    /\ other' = NoOther
    /\ UNCHANGED <<token_file, dbVars, runVars, histVars, logVars, writer, appVars, fnVars, tokVars>>

\* lines 307-308: SELECT COUNT(*) FROM plays WHERE track_id = ? AND played_at = ?
OtherSelectCount ==
    /\ other.pc = "check"
    /\ other' = [other EXCEPT !.pc = "insert",
                              !.exists = PlayExists(plays, OtherItem.track_id,
                                                    OtherItem.played_at)]
    /\ UNCHANGED <<token_file, dbVars, runVars, histVars, logVars, writer, appVars, fnVars, tokVars>>

\* lines 310-316: if not exists, INSERT INTO plays
OtherInsertPlay ==
    /\ other.pc = "insert"
    /\ plays' = IF ~other.exists
                THEN InsertPlay(plays, OtherItem.track_id, OtherItem.played_at,
                                OtherItem.context)
                ELSE plays
    /\ other' = [other EXCEPT !.pc = "items", !.idx = other.idx + 1,
                              !.new_plays_count =
                                  IF ~other.exists THEN other.new_plays_count + 1
                                  ELSE other.new_plays_count]
    /\ UNCHANGED <<token_file, tables_created, tracks, download_history, runVars,
                   histVars, logVars, writer, appVars, fnVars, tokVars>>

\* line 326: conn.commit()
OtherCommit ==
    /\ other.pc = "items"
    /\ other.idx > Len(other.items)
    /\ writer' = Released("other")
    /\ other' = [other EXCEPT !.pc = "tail"]
    /\ UNCHANGED <<token_file, dbVars, runVars, histVars, logVars, appVars, fnVars, tokVars>>

\* lines 327-380: backfill and audio features find nothing to update; the
\* checkpoint is written when plays were added and the store is not locked
OtherTail ==
    /\ other.pc = "tail"
    /\ download_history' =
          IF CheckpointDue(other.new_plays_count, other.items) /\ ~Locked("other")
          THEN save_download_history(download_history, LatestPlay(other.items),
                                     other.new_plays_count)
          ELSE download_history
    /\ other' = NoOther
    /\ UNCHANGED <<token_file, tables_created, tracks, plays, runVars, histVars,
                   logVars, writer, appVars, fnVars, tokVars>>

NextRace ==
    \/ SaveToken(AccessValuesBasic)
    \/ StartRun
    \/ RefreshAccessToken(AccessValuesBasic)
    \/ CreateTables
    \/ FetchRecentlyPlayed(RaceFeeds)
    \/ Deduplicate
    \/ ProcessItem(NoGenreAnswers)
    \/ ProcessItemLocked
    \/ CommitItems
    \/ BackfillGenre(NoGenreAnswers)
    \/ CommitBackfill
    \/ FeaturesBatch(FeatureEntriesBasic)
    \/ FinishRun(WritesBasic)
    \/ OtherStart(RaceFeeds)
    \/ OtherInsertTrack(NoGenreAnswers)
    \/ OtherLocked
    \/ OtherSelectCount
    \/ OtherInsertPlay
    \/ OtherCommit
    \/ OtherTail

SpecRace == Init /\ [][NextRace]_vars

----------------------------------------------------------------------------
(* C24: two interleaved runs over the same feed *)

DuplicatePlayRows ==
    \E i, j \in 1..Len(plays) :
        /\ i # j
        /\ plays[i].track_id = plays[j].track_id
        /\ plays[i].played_at = plays[j].played_at

\* the second run has found no row for its event and has not inserted yet,
\* and the first run is about to process the same event
BothAtTheSameEvent ==
    /\ other.pc = "insert" /\ ~other.exists
    /\ pc = "items" /\ idx <= Len(items)
    /\ items[idx].track_id = OtherItem.track_id
    /\ items[idx].played_at = OtherItem.played_at

\* C24 as stated: the SELECT COUNT and the INSERT of a run are not atomic;
\* between the two the other run can insert the same play
C24_CheckThenInsertInterleaves ==
    BothAtTheSameEvent => ENABLED ProcessItem(NoGenreAnswers)

\* C24, amended: a run's SELECT COUNT and INSERT execute inside the write
\* transaction its INSERT OR IGNORE began, the store admits one write
\* transaction at a time, and with two interleaved runs no two rows of plays
\* share (track_id, played_at)
C24_WriteLockSerialisesRuns ==
    /\ ~DuplicatePlayRows
    /\ other.pc \in {"check", "insert"} => writer = "other"
    /\ BothAtTheSameEvent => ~ENABLED ProcessItem(NoGenreAnswers)

\* the first run, stopped at the event the second run is about to insert
C24_Witness == BothAtTheSameEvent /\ writer = "other" /\ ENABLED ProcessItemLocked

----------------------------------------------------------------------------
(* C25: the direction of the list *)

RECURSIVE Reverse(_)
Reverse(q) == IF q = <<>> THEN <<>> ELSE Append(Reverse(Tail(q)), Head(q))

\* C25: for a list ordered by played_at, deduplicate_consecutive_plays emits
\* as many events for the list oldest first as for the list newest first
C25_DirectionIndependentCount ==
    DedupReturned =>
        Len(ret.value) = Len(deduplicate_consecutive_plays(Reverse(call.items)).value)

\* four plays of one track, oldest first, of which the scan merged two; read
\* newest first the scan keeps other events
C25_Witness ==
    /\ DedupReturned
    /\ Len(call.items) = 4 /\ Len(ret.value) = 2
    /\ \A k \in 1..3 : /\ call.items[k].track_id = call.items[k + 1].track_id
                       /\ TextLess(call.items[k].played_at, call.items[k + 1].played_at)
    /\ {ret.value[k].played_at : k \in 1..2} #
       {deduplicate_consecutive_plays(Reverse(call.items)).value[k].played_at : k \in 1..2}

----------------------------------------------------------------------------
(* C26: the shape of the returned list *)

\* the returned events whose run holds the event at position p
Representatives(p) ==
    {a \in KeptSet : a <= p /\ AnchorRun(a, p) /\ KeptSet \cap ((a + 1)..p) = {}}

----------------------------------------------------------------------------
(* C27: the play time of a merged run *)

\* the positions merged into the k-th returned event
RunOf(k) ==
    ret.kept[k]..(IF k < Len(ret.kept) THEN ret.kept[k + 1] - 1 ELSE Len(call.items))

\* C27: the event returned for a merged run is its first occurrence and
\* carries the latest played_at of the run
C27_LatestTimestampIsUsed ==
    DedupReturned =>
        \A k \in 1..Len(ret.kept) :
            /\ ret.value[k].track_id = call.items[ret.kept[k]].track_id
            /\ \A p \in RunOf(k) :
                  ~TextLess(ret.value[k].played_at, call.items[p].played_at)

----------------------------------------------------------------------------
(* Runs over a feed that grows: the service lists the newest play first,   *)
(* and each fetch returns what the fetch before it returned with newer     *)
(* plays in front.                                                         *)

GrowEvents ==
    {Event("A", <<0, 0>>, Desc1, "none"), Event("A", <<2, 0>>, Desc1, "none"),
     Event("A", <<6, 40>>, Desc1, "none"), Event("B", <<5, 0>>, Desc1, "none")}

\* the feeds of these runs: up to three plays, strictly newest first
GrowFeeds ==
    {s \in SeqsUpTo(GrowEvents, 3) :
        /\ s # <<>>
        /\ \A k \in 1..(Len(s) - 1) : TextLess(s[k + 1].played_at, s[k].played_at)}

\* later is earlier with newer plays added at its recent end
Extends(later, earlier) ==
    /\ Len(later) >= Len(earlier)
    /\ SubSeq(later, Len(later) - Len(earlier) + 1, Len(later)) = earlier

\* what the service can answer after the fetch of the run before
GrownFeeds ==
    IF raw = None THEN GrowFeeds ELSE {s \in GrowFeeds : Extends(s, raw[1])}

NextGrow ==
    \/ SaveToken(AccessValuesBasic)
    \/ StartRun
    \/ RefreshAccessToken(AccessValuesBasic)
    \/ CreateTables
    \/ FetchRecentlyPlayed(GrownFeeds)
    \/ Deduplicate
    \/ ProcessItem(NoGenreAnswers)
    \/ CommitItems
    \/ BackfillGenre(NoGenreAnswers)
    \/ CommitBackfill
    \/ FeaturesBatch({None})
    \/ FinishRun(WritesBasic)

SpecGrow == Init /\ [][NextGrow]_vars

----------------------------------------------------------------------------
(* C28: a pause/resume run across runs *)

\* the rows i and j of plays are of events next to each other in the feed
AdjacentInFeed(i, j) ==
    /\ raw # None
    /\ \E k \in 1..(Len(raw[1]) - 1) :
          /\ raw[1][k].track_id = plays[i].track_id
          /\ raw[1][k].played_at = plays[i].played_at
          /\ raw[1][k + 1].track_id = plays[j].track_id
          /\ raw[1][k + 1].played_at = plays[j].played_at

\* C28: after any sequence of runs over a growing feed, plays holds no two
\* rows of one track less than 300 s apart whose events are adjacent in the
\* feed
C28_RunPersistedOnce ==
    \A i, j \in 1..Len(plays) :
        (/\ i # j
         /\ plays[i].track_id = plays[j].track_id
         /\ Abs(time_diff(plays[i].played_at, plays[j].played_at)) < MergeWindow)
        => ~AdjacentInFeed(i, j)

----------------------------------------------------------------------------
(* C29: saving tags *)

TagsSaved == call.fn = "detect_skipped" /\ ret.save # None

\* C29: on a database made by create_tables, saving the tags of a play
\* succeeds, changes that row only, and stores is_skipped 1 when
\* detect_skipped said skipped, 0 when it said played, and null when its
\* answer was unknown
C29_SaveTagsPersistsSkip ==
    TagsSaved =>
        /\ ret.save[1].raised = ""
        /\ \A k \in 1..Len(call.rows[1]) :
              k # ShownPlay => ret.save[1].rows[k] = call.rows[1][k]
        /\ ret.save[1].rows[ShownPlay].is_skipped =
              (IF ret.skip_indicator = ">> (skipped)" THEN 1
               ELSE IF ret.skip_indicator = "ok (played)" THEN 0
               ELSE None)

----------------------------------------------------------------------------
(* The session of app.py: requests of /callback, /logout and /me, and the clock *)

NextSession ==
    \/ Callback(AccessValuesAll)
    \/ Logout
    \/ MeEndpoint(AccessValuesAll)
    \/ Expire(AccessValuesAll)

SpecSession == Init /\ [][NextSession]_vars

\* the request just answered
Answered(fns) == ret'.returned /\ call'.fn \in fns
CallbackRefused == call'.error # None \/ call'.code = None
OutOfRange == call'.limit # None /\ (call'.limit[1] < 1 \/ call'.limit[1] > SpotifyLimit)
NoClientFor(tf, exp) ==
    \A outcome \in {"HTTPError"} \cup AccessValuesAll :
        get_spotify_client(tf, exp, outcome, AccessValuesAll).client = None

\* what load_token returns is the credential of the last successful
\* save_token, of /callback or of a refresh, that no clear_token followed,
\* and nothing after a clear_token; a /callback with an error parameter or
\* without a code answers 400 and leaves the stored credential as it was
StoredCredential ==
    /\ token_file' = session'.saved
    /\ (Answered({"/callback"}) /\ CallbackRefused)
          => (token_file' = token_file /\ ret'.status = 400)
    /\ (Answered({"/callback"}) /\ ret'.status = 200)
          => (token_file' # None /\ session'.last = "callback")

\* C30 as stated: the session lifecycle, where after a successful /logout
\* and until the next successful /callback get_spotify_client returns no
\* client and every request of /me/profile, /me/top-tracks and
\* /me/recently-played answers 401.
C30_LoggedOutAlways401 ==
    [][/\ StoredCredential
       /\ session.last = "logout"
            => /\ NoClientFor(token_file, expired)
               /\ Answered(MeEndpoints) => ret'.status = 401]_vars

\* C30, amended: the session lifecycle, where after a successful /logout and
\* until the next successful /callback get_spotify_client returns no
\* client, no request of /me answers 500 or 200, a request of /me/profile
\* and a request of a list with a limit within 1..50 answer 401, and a
\* request of a list with a limit outside 1..50 answers 400.
C30_SessionLifecycle ==
    [][/\ StoredCredential
       /\ session.last = "logout"
            => /\ NoClientFor(token_file, expired)
               /\ Answered(MeEndpoints)
                    => /\ ret'.status = (IF OutOfRange THEN 400 ELSE 401)
                       /\ token_file' = None
                       /\ session'.last = "logout"]_vars

\* a request of /me answered 401 after a successful /logout
C30_Witness ==
    /\ session.last = "logout"
    /\ ret.returned /\ call.fn \in MeEndpoints
    /\ ret.status = 401

====
